---- MODULE Spec2Model ----
(***************************************************************************)
(* AKIR Restaurant backend: the outbound notification dispatch layer       *)
(* (provider selection, sendEmail, the three adapters) and the two         *)
(* business handlers POST /api/reservations and POST /api/contact.         *)
(*                                                                         *)
(* The repository holds five variants of server.js:                        *)
(*   "multi" : src/unnamed/part_002      SendGrid / Resend / SMTP selector *)
(*   "smtp"  : src/unnamed/part_001      SMTP only, simulation when unset  *)
(*   "sg1"   : src/server.js   1..211    SendGrid only, key checked        *)
(*   "sg2"   : src/server.js 213..414    SendGrid only, key not checked    *)
(*   "gmail" : src/server.js 416..614    Gmail SMTP, simulation when unset *)
(* The variant is fixed at start-up together with the configuration.       *)
(***************************************************************************)
EXTENDS Naturals, Sequences, FiniteSets

VARIABLES
    variant,            \* which server.js is running
    SENDGRID_API_KEY,   \* TRUE iff the constant is a non-empty string
    RESEND_API_KEY,
    SMTP_USER,
    SMTP_PASS,
    PROVIDER,           \* "sendgrid" | "resend" | "smtp"
    smtpTransporter,    \* TRUE iff a nodemailer transporter was created
    smtpOptions,        \* << the options given to createTransport >>, << >> if none
    smtpVerify,         \* transporter.verify(): "none" | "pending" | "ok" | "failed"
    now,                \* Date.now()
    reqs                \* request id -> the state of its handler invocation

vars == << variant, SENDGRID_API_KEY, RESEND_API_KEY, SMTP_USER, SMTP_PASS,
           PROVIDER, smtpTransporter, smtpOptions, smtpVerify, now, reqs >>

config == << variant, SENDGRID_API_KEY, RESEND_API_KEY, SMTP_USER, SMTP_PASS,
             PROVIDER, smtpTransporter, smtpOptions >>

----------------------------------------------------------------------------
(* Bounds *)

MaxReq == 1          \* requests served under Spec (any body)
MaxConcurrent == 2   \* requests served under SpecConcurrent (a few bodies)
MaxClock == 1        \* clock ticks

----------------------------------------------------------------------------
(* JSON values of a body field, by what the handlers can tell apart *)

Undefined == "undefined"
Null == "null"
Empty == ""
Text == "text"
BadObj == "{toString:1}"     \* an object with no callable toString: `${v}` throws TypeError

FieldVals == {Undefined, Null, Empty, Text, BadObj}

Variants == {"multi", "smtp", "sg1", "sg2", "gmail"}

MAIL_TO == "MAIL_TO"

Truthy(v) == v \notin {Undefined, Null, Empty}

\* a ?? b
Coalesce(a, b) == IF a \in {Undefined, Null} THEN b ELSE a

\* `${v}` / new Date(v)
InterpolationThrows(v) == v = BadObj

ReservationRequired == {"name", "email", "phone", "date", "time", "guests"}
ReservationFields == ReservationRequired \cup {"message", "specialRequests"}
ContactRequired == {"name", "email", "message"}
ContactFields == ContactRequired \cup {"subject"}

ReservationBase ==
    [f \in ReservationFields |-> IF f \in ReservationRequired THEN Text ELSE Undefined]

ContactBase ==
    [f \in ContactFields |-> IF f \in ContactRequired THEN Text ELSE Undefined]

\* request bodies: a complete body with at most one field changed, and the empty body
ReservationBodies ==
    { [ReservationBase EXCEPT ![f] = v] : f \in ReservationFields, v \in FieldVals }
        \cup { [f \in ReservationFields |-> Undefined] }

ContactBodies ==
    { [ContactBase EXCEPT ![f] = v] : f \in ContactFields, v \in FieldVals }
        \cup { [f \in ContactFields |-> Undefined] }

----------------------------------------------------------------------------
(* Configuration *)

EnvKeys == {"SENDGRID_API_KEY", "RESEND_API_KEY", "SMTP_USER", "SMTP_PASS",
            "EMAIL_USER", "EMAIL_PASS"}

\* process.env: TRUE iff the variable is set to a non-empty string
Envs == [EnvKeys -> BOOLEAN]

SendGridKeyOf(v, env) ==
    IF v \in {"multi", "sg1", "sg2"} THEN env["SENDGRID_API_KEY"] ELSE FALSE

ResendKeyOf(v, env) ==
    IF v = "multi" THEN env["RESEND_API_KEY"] ELSE FALSE

SmtpUserOf(v, env) ==
    CASE v \in {"multi", "smtp"} -> env["SMTP_USER"] \/ env["EMAIL_USER"]
      [] v = "gmail"             -> env["EMAIL_USER"]
      [] OTHER                   -> FALSE

SmtpPassOf(v, env) ==
    CASE v \in {"multi", "smtp"} -> env["SMTP_PASS"] \/ env["EMAIL_PASS"]
      [] v = "gmail"             -> env["EMAIL_PASS"]
      [] OTHER                   -> FALSE

\* mutant: the Resend key is looked at before the SendGrid key
ProviderOf_ResendFirst(v, sg, rs) ==
    CASE v = "multi"          -> IF rs THEN "resend" ELSE IF sg THEN "sendgrid" ELSE "smtp"
      [] v \in {"sg1", "sg2"} -> "sendgrid"
      [] OTHER                -> "smtp"

ProviderOf(v, sg, rs) ==
    CASE v = "multi"          -> IF sg THEN "sendgrid" ELSE IF rs THEN "resend" ELSE "smtp"
      [] v \in {"sg1", "sg2"} -> "sendgrid"
      [] OTHER                -> "smtp"

TransporterOf(v, provider, user, pass) ==
    CASE v = "multi"             -> provider = "smtp" /\ user /\ pass
      [] v \in {"smtp", "gmail"} -> user /\ pass
      [] OTHER                   -> FALSE

\* values of SMTP_PORT
SmtpPorts == {465, 587}

\* SMTP_SECURE; secureEnv is TRUE iff the environment sets SMTP_SECURE to 'true'
SmtpSecureOf(port, secureEnv) == secureEnv \/ port = 465

\* the security options of nodemailer.createTransport
TransportOptionsOf(v, transporter, port, secureEnv) ==
    CASE ~transporter -> << >>
      [] v = "gmail"  -> << [port |-> 587, secure |-> FALSE, requireTLS |-> FALSE] >>
      [] OTHER        -> << [port |-> port,
                             secure |-> SmtpSecureOf(port, secureEnv),
                             requireTLS |-> ~SmtpSecureOf(port, secureEnv)] >>

----------------------------------------------------------------------------
(* Requests *)

NoResp == [status |-> 0, success |-> FALSE, message |-> "", reservationId |-> << >>]

\* the handler's local `notes` before it is assigned
NotDerived == "not derived"

Idle == [kind |-> "none", body |-> << >>, pc |-> "idle", sends |-> << >>,
         resp |-> NoResp, responses |-> 0, logged |-> {}, simulated |-> FALSE,
         notes |-> NotDerived]

\* start-up, with room for n requests
Boot(n) ==
    /\ \E v \in Variants, env \in Envs :
        /\ variant = v
        /\ SENDGRID_API_KEY = SendGridKeyOf(v, env)
        /\ RESEND_API_KEY = ResendKeyOf(v, env)
        /\ SMTP_USER = SmtpUserOf(v, env)
        /\ SMTP_PASS = SmtpPassOf(v, env)
        /\ PROVIDER = ProviderOf(v, SendGridKeyOf(v, env), ResendKeyOf(v, env))
        /\ smtpTransporter =
             TransporterOf(v, ProviderOf(v, SendGridKeyOf(v, env), ResendKeyOf(v, env)),
                           SmtpUserOf(v, env), SmtpPassOf(v, env))
        /\ \E port \in SmtpPorts, secureEnv \in BOOLEAN :
             smtpOptions =
               TransportOptionsOf(v,
                 TransporterOf(v, ProviderOf(v, SendGridKeyOf(v, env), ResendKeyOf(v, env)),
                               SmtpUserOf(v, env), SmtpPassOf(v, env)),
                 port, secureEnv)
    /\ smtpVerify = IF smtpTransporter THEN "pending" ELSE "none"
    /\ now = 0
    /\ reqs = [r \in 1..n |-> Idle]

Init == Boot(MaxReq)

InitConcurrent == Boot(MaxConcurrent)

ReqIds == DOMAIN reqs

----------------------------------------------------------------------------
(* Adapters: the part of a send that runs before its first await *)

\* `attempts` counts the outbound requests (fetch / sendMail) the call has made;
\* `http` is the provider's answer, `detail` what the Error message quotes of it
InFlight(to, via) ==
    [to |-> to, via |-> via, status |-> "inflight", reason |-> "", net |-> TRUE,
     attempts |-> 1, http |-> "none", detail |-> {}]

Thrown(to, via, reason) ==
    [to |-> to, via |-> via, status |-> "failed", reason |-> reason, net |-> FALSE,
     attempts |-> 0, http |-> "none", detail |-> {}]

sendWithSendGrid(to) ==
    IF variant = "sg1" /\ ~SENDGRID_API_KEY
    THEN Thrown(to, "sendWithSendGrid", "SENDGRID_API_KEY missing")
    ELSE InFlight(to, "sendWithSendGrid")

sendWithResend(to) == InFlight(to, "sendWithResend")

\* mutant: the adapter refuses to send until the transporter has been verified
sendWithSMTP_OnceVerified(to) ==
    IF ~smtpTransporter \/ smtpVerify # "ok"
    THEN Thrown(to, "sendWithSMTP", "SMTP not configured")
    ELSE InFlight(to, "sendWithSMTP")

\* mutant: the adapter does not check that a transporter exists
sendWithSMTP_NoGuard(to) == InFlight(to, "sendWithSMTP")

sendWithSMTP(to) ==
    IF ~smtpTransporter
    THEN Thrown(to, "sendWithSMTP", "SMTP not configured")
    ELSE InFlight(to, "sendWithSMTP")

\* mutant: mail to the submitter always goes through SMTP
sendEmail_PerRecipient(to) ==
    IF to # MAIL_TO THEN sendWithSMTP(to)
    ELSE IF PROVIDER = "sendgrid" THEN sendWithSendGrid(to)
    ELSE IF PROVIDER = "resend" THEN sendWithResend(to)
    ELSE sendWithSMTP(to)

sendEmail(to) ==
    IF PROVIDER = "sendgrid" THEN sendWithSendGrid(to)
    ELSE IF PROVIDER = "resend" THEN sendWithResend(to)
    ELSE sendWithSMTP(to)

\* transporter.sendMail(mail), called directly by the SMTP-only variants
sendMail(to) == InFlight(to, "sendMail")

\* the adapters that POST to a provider's HTTPS API
HttpsAdapters == {"sendWithSendGrid", "sendWithResend"}

\* how an outbound request can end: "accepted" (2xx / SMTP accepted),
\* "refused" (non-2xx, body readable), "unreadable" (non-2xx, reading the
\* body fails), "error" (fetch or sendMail rejects)
OutcomesOf(via) ==
    IF via \in HttpsAdapters
    THEN {"accepted", "refused", "unreadable", "error"}
    ELSE {"accepted", "error"}

Outcomes == {"accepted", "refused", "unreadable", "error"}

\* the outcomes every adapter has: the request succeeds or the request fails
PlainOutcomes == {"accepted", "error"}

\* `await resp.text()` rejects and nothing catches it inside the adapter
BodyReadUnguarded == variant = "multi"

\* the adapter from its `await fetch(...)` / `await sendMail(...)` on
AfterAwait(send, outcome) ==
    CASE outcome = "accepted" ->
            [send EXCEPT !.status = "ok",
                         !.http = IF send.via \in HttpsAdapters THEN "2xx" ELSE "none"]
      [] outcome = "refused" ->
            [send EXCEPT !.status = "failed", !.http = "non2xx",
                         !.reason = "provider response", !.detail = {"status", "body"}]
      [] outcome = "unreadable" ->
            IF BodyReadUnguarded
            THEN [send EXCEPT !.status = "failed", !.http = "non2xx, body unreadable",
                              !.reason = "body read error"]
            ELSE [send EXCEPT !.status = "failed", !.http = "non2xx, body unreadable",
                              !.reason = "provider response", !.detail = {"status"}]
      [] OTHER ->
            [send EXCEPT !.status = "failed", !.reason = "transport"]

\* mutant: the customer's mail is built in an object shared by all requests,
\* so it goes to the submitter of the first request received
Send_SharedEnvelope(to) ==
    LET t == IF to # MAIL_TO /\ reqs[1].pc # "idle" THEN reqs[1].body["email"] ELSE to
    IN  CASE variant = "multi"          -> sendEmail(t)
          [] variant \in {"sg1", "sg2"} -> sendWithSendGrid(t)
          [] OTHER                      -> sendMail(t)

\* the send call each variant's handlers make
Send(to) ==
    CASE variant = "multi"          -> sendEmail(to)
      [] variant \in {"sg1", "sg2"} -> sendWithSendGrid(to)
      [] OTHER                      -> sendMail(to)

----------------------------------------------------------------------------
(* Handlers *)

MissingFields ==
    [status |-> 400, success |-> FALSE, message |-> "Missing required fields",
     reservationId |-> << >>]

ServerError ==
    [status |-> 500, success |-> FALSE, message |-> "Server error",
     reservationId |-> << >>]

SavedInDev ==
    [status |-> 200, success |-> TRUE, message |-> "Saved (email failed in dev)",
     reservationId |-> << >>]

\* mutant: the reference is built from the clock value read at start-up
ReservationReceived_StartupClock ==
    [status |-> 200, success |-> TRUE, message |-> "Reservation request received",
     reservationId |-> << "AKIR-", 0 >>]

\* mutant: the success response carries no reference
ReservationReceived_NoReference ==
    [status |-> 200, success |-> TRUE, message |-> "Reservation request received",
     reservationId |-> << >>]

ReservationReceived ==
    [status |-> 200, success |-> TRUE, message |-> "Reservation request received",
     reservationId |-> << "AKIR-", now >>]

ContactSubmitted ==
    [status |-> 200, success |-> TRUE, message |-> "Contact form submitted successfully",
     reservationId |-> << >>]

Success(kind) == IF kind = "reservation" THEN ReservationReceived ELSE ContactSubmitted

\* the handler's outer catch block
OuterCatch == IF variant = "gmail" THEN SavedInDev ELSE ServerError

\* the variants that wrap the sends in their own try/catch
InnerCatch == variant \in {"smtp", "gmail"}

\* res.json(...) / res.status(...).json(...): `responses` counts the calls
Respond(q, resp) == [q EXCEPT !.pc = "done", !.resp = resp, !.responses = @ + 1]

\* mutant: guests is not checked
MissingReservation_SkipsGuests(body) ==
    \E f \in ReservationRequired \ {"guests"} : ~Truthy(body[f])

MissingReservation(body) == \E f \in ReservationRequired : ~Truthy(body[f])

\* mutant: subject is required too
MissingContact_RequiresSubject(body) == \E f \in ContactFields : ~Truthy(body[f])

MissingContact(body) == \E f \in ContactRequired : ~Truthy(body[f])

\* mutant: the fallbacks are taken on every falsy value, as with ||
notes_OrChain(body) ==
    IF Truthy(body["specialRequests"]) THEN body["specialRequests"]
    ELSE IF Truthy(body["message"]) THEN body["message"]
    ELSE Empty

notes(body) == Coalesce(body["specialRequests"], Coalesce(body["message"], Empty))

\* building the subjects and html bodies
ReservationComposeThrows(body) ==
    \/ \E f \in ReservationRequired : InterpolationThrows(body[f])
    \/ Truthy(notes(body)) /\ InterpolationThrows(notes(body))

ContactComposeThrows(body) ==
    \/ \E f \in ContactRequired : InterpolationThrows(body[f])
    \/ Truthy(body["subject"]) /\ InterpolationThrows(body["subject"])

\* Promise.all over the sends
PromiseAll(S) ==
    IF \E i \in 1..Len(S) : S[i].status = "failed" THEN "rejected"
    ELSE IF \A i \in 1..Len(S) : S[i].status = "ok" THEN "fulfilled"
    ELSE "pending"

FirstFailed(S) == CHOOSE i \in 1..Len(S) :
    /\ S[i].status = "failed"
    /\ \A j \in 1..(i - 1) : S[j].status # "failed"

\* the handler from `await` on, once the awaited promise has settled;
\* `cause` is the send whose rejection rejected it
Resume(q, S, cause) ==
    CASE PromiseAll(S) = "pending" ->
            [q EXCEPT !.sends = S, !.pc = "awaiting"]
      [] PromiseAll(S) = "fulfilled" ->
            Respond([q EXCEPT !.sends = S], Success(q.kind))
      [] OTHER ->
            Respond([q EXCEPT !.sends = S, !.logged = {cause}],
                    IF InnerCatch THEN Success(q.kind) ELSE OuterCatch)

Started(kind, body) == [Idle EXCEPT !.kind = kind, !.body = body]

\* mutant: the sends are awaited one after the other, so only the first is
\* started before the handler's first await
Dispatch_Sequential(q, tos) ==
    IF InnerCatch /\ ~smtpTransporter
    THEN Respond([q EXCEPT !.simulated = TRUE], Success(q.kind))
    ELSE LET S == << Send(tos[1]) >>
         IN  Resume(q, S, IF PromiseAll(S) = "rejected" THEN FirstFailed(S) ELSE 0)

\* the sends the handler issues for recipients `tos`, up to its response or its await
Dispatch(q, tos) ==
    IF InnerCatch /\ ~smtpTransporter
    THEN Respond([q EXCEPT !.simulated = TRUE], Success(q.kind))
    ELSE LET S == [i \in 1..Len(tos) |-> Send(tos[i])]
         IN  Resume(q, S, IF PromiseAll(S) = "rejected" THEN FirstFailed(S) ELSE 0)

\* mutant: the customer's confirmation is addressed to the operator too
reservations_BothToOperator(body) ==
    LET q == Started("reservation", body)
        v == [q EXCEPT !.notes = notes(body)]
    IN  IF MissingReservation(body)
        THEN Respond(q, MissingFields)
        ELSE IF ReservationComposeThrows(body)
        THEN Respond(v, OuterCatch)
        ELSE Dispatch(v, << MAIL_TO, MAIL_TO >>)

reservations(body) ==
    LET q == Started("reservation", body)
        v == [q EXCEPT !.notes = notes(body)]
    IN  IF MissingReservation(body)
        THEN Respond(q, MissingFields)
        ELSE IF ReservationComposeThrows(body)
        THEN Respond(v, OuterCatch)
        ELSE Dispatch(v, << MAIL_TO, body["email"] >>)

\* mutant: the contact mail is addressed to the submitter
contact_ToSubmitter(body) ==
    LET q == Started("contact", body)
    IN  IF MissingContact(body)
        THEN Respond(q, MissingFields)
        ELSE IF ContactComposeThrows(body)
        THEN Respond(q, OuterCatch)
        ELSE Dispatch(q, << body["email"] >>)

contact(body) ==
    LET q == Started("contact", body)
    IN  IF MissingContact(body)
        THEN Respond(q, MissingFields)
        ELSE IF ContactComposeThrows(body)
        THEN Respond(q, OuterCatch)
        ELSE Dispatch(q, << MAIL_TO >>)

\* mutant: a failed attempt is repeated once before the send is given up
Settled_RetriesOnce(q, i, outcome) ==
    IF outcome # "accepted" /\ q.sends[i].attempts < 2
    THEN [q EXCEPT !.sends[i].attempts = @ + 1]
    ELSE LET S == [q.sends EXCEPT ![i] = AfterAwait(@, outcome)]
         IN  IF q.pc = "awaiting"
             THEN Resume(q, S, i)
             ELSE [q EXCEPT !.sends = S]

\* mutant: the handler's continuation runs on every settlement, also after
\* the handler has responded
Settled_ResumesAgain(q, i, outcome) ==
    Resume(q, [q.sends EXCEPT ![i] = AfterAwait(@, outcome)], i)

\* a send settles; when that settles the awaited promise the handler resumes
Settled(q, i, outcome) ==
    LET S == [q.sends EXCEPT ![i] = AfterAwait(@, outcome)]
    IN  IF q.pc = "awaiting"
        THEN Resume(q, S, i)
        ELSE [q EXCEPT !.sends = S]

----------------------------------------------------------------------------
(* Actions *)

\* request ids are given in arrival order
Arrives(r) ==
    /\ reqs[r].pc = "idle"
    /\ IF r = 1 THEN TRUE ELSE reqs[r - 1].pc # "idle"

PostReservation(r, body) ==
    /\ Arrives(r)
    /\ reqs' = [reqs EXCEPT ![r] = reservations(body)]
    /\ UNCHANGED << config, smtpVerify, now >>

PostContact(r, body) ==
    /\ Arrives(r)
    /\ reqs' = [reqs EXCEPT ![r] = contact(body)]
    /\ UNCHANGED << config, smtpVerify, now >>

SendSettles(r, i, outcome) ==
    /\ i \in 1..Len(reqs[r].sends)
    /\ reqs[r].sends[i].status = "inflight"
    /\ outcome \in OutcomesOf(reqs[r].sends[i].via)
    /\ reqs' = [reqs EXCEPT ![r] = Settled(reqs[r], i, outcome)]
    /\ UNCHANGED << config, smtpVerify, now >>

Tick ==
    /\ now < MaxClock
    /\ now' = now + 1
    /\ UNCHANGED << config, smtpVerify, reqs >>

\* the start-up verification handshake ends; its outcome is only logged
VerifySettles(outcome) ==
    /\ smtpVerify = "pending"
    /\ smtpVerify' = outcome
    /\ UNCHANGED << config, now, reqs >>

\* one request with any body, served within one clock tick
Next ==
    \/ \E r \in ReqIds, body \in ReservationBodies : PostReservation(r, body)
    \/ \E r \in ReqIds, body \in ContactBodies : PostContact(r, body)
    \/ \E r \in ReqIds, i \in 1..2, outcome \in PlainOutcomes : SendSettles(r, i, outcome)

Spec == Init /\ [][Next]_vars

\* one request, with every answer a provider can give
NextProviders ==
    \/ \E r \in ReqIds, body \in ReservationBodies : PostReservation(r, body)
    \/ \E r \in ReqIds, body \in ContactBodies : PostContact(r, body)
    \/ \E r \in ReqIds, i \in 1..2, outcome \in Outcomes : SendSettles(r, i, outcome)

SpecProviders == Init /\ [][NextProviders]_vars

\* bodies of concurrent requests: complete, one field missing, one field unprintable
ConcurrentReservationBodies ==
    { ReservationBase,
      [ReservationBase EXCEPT !["guests"] = Undefined],
      [ReservationBase EXCEPT !["name"] = BadObj] }

ConcurrentContactBodies ==
    { ContactBase,
      [ContactBase EXCEPT !["message"] = Undefined],
      [ContactBase EXCEPT !["name"] = BadObj] }

\* several requests in flight at once, while the clock advances
NextConcurrent ==
    \/ \E r \in ReqIds, body \in ConcurrentReservationBodies : PostReservation(r, body)
    \/ \E r \in ReqIds, body \in ConcurrentContactBodies : PostContact(r, body)
    \/ \E r \in ReqIds, i \in 1..2, outcome \in PlainOutcomes : SendSettles(r, i, outcome)
    \/ Tick

SpecConcurrent == InitConcurrent /\ [][NextConcurrent]_vars

\* a second submitter address, told apart from the first
OtherEmail == "other@example.com"

\* bodies of interleaved requests: two submitters, and a contact message
InterleavedReservationBodies ==
    { ReservationBase,
      [ReservationBase EXCEPT !["email"] = OtherEmail],
      [ReservationBase EXCEPT !["guests"] = Undefined] }

InterleavedContactBodies ==
    { ContactBase,
      [ContactBase EXCEPT !["name"] = BadObj] }

\* several requests in flight at once, in every order of arrival and settlement
NextInterleaved ==
    \/ \E r \in ReqIds, body \in InterleavedReservationBodies : PostReservation(r, body)
    \/ \E r \in ReqIds, body \in InterleavedContactBodies : PostContact(r, body)
    \/ \E r \in ReqIds, i \in 1..2, outcome \in PlainOutcomes : SendSettles(r, i, outcome)

SpecInterleaved == InitConcurrent /\ [][NextInterleaved]_vars

\* a specialRequests text, told apart from the message text
SpecialText == "no nuts"

\* valid reservation bodies with every pair of specialRequests and message:
\* each absent, null, empty or a text
NotesBodies ==
    { [ReservationBase EXCEPT !["specialRequests"] = a, !["message"] = b] :
        a \in {Undefined, Null, Empty, SpecialText}, b \in {Undefined, Null, Empty, Text} }

\* reservation requests that differ in their two notes fields only
NextNotes ==
    \E r \in ReqIds, body \in NotesBodies : PostReservation(r, body)

SpecNotes == Init /\ [][NextNotes]_vars

\* every send that was issued settles in the end: fetch and sendMail resolve,
\* reject or time out
SendsSettle ==
    \A r \in 1..MaxReq, i \in 1..2 :
        WF_vars(\E outcome \in PlainOutcomes : SendSettles(r, i, outcome))

\* requests on each path of the handlers: rejected, failing to compose, sending
NextLive ==
    \/ \E r \in ReqIds, body \in ConcurrentReservationBodies : PostReservation(r, body)
    \/ \E r \in ReqIds, body \in ConcurrentContactBodies : PostContact(r, body)
    \/ \E r \in ReqIds, i \in 1..2, outcome \in PlainOutcomes : SendSettles(r, i, outcome)

SpecLive == Init /\ [][NextLive]_vars /\ SendsSettle

\* requests served while the start-up verification is pending or has ended
NextStartup ==
    \/ \E r \in ReqIds, body \in ConcurrentReservationBodies : PostReservation(r, body)
    \/ \E r \in ReqIds, body \in ConcurrentContactBodies : PostContact(r, body)
    \/ \E r \in ReqIds, i \in 1..2, outcome \in PlainOutcomes : SendSettles(r, i, outcome)
    \/ \E outcome \in {"ok", "failed"} : VerifySettles(outcome)
    \/ Tick

SpecStartup == Init /\ [][NextStartup]_vars

----------------------------------------------------------------------------
(* Vocabulary of the properties *)

Absent(v) == v = Undefined \/ v = Null \/ v = Empty

Arrived(r) == reqs[r].pc # "idle"

Responded(r) == reqs[r].pc = "done"

IsReservation(r) == reqs[r].kind = "reservation"

IsContact(r) == reqs[r].kind = "contact"

\* the request names every field its handler requires
ReservationComplete(r) ==
    /\ IsReservation(r)
    /\ ~Absent(reqs[r].body["name"])
    /\ ~Absent(reqs[r].body["email"])
    /\ ~Absent(reqs[r].body["phone"])
    /\ ~Absent(reqs[r].body["date"])
    /\ ~Absent(reqs[r].body["time"])
    /\ ~Absent(reqs[r].body["guests"])

ContactComplete(r) ==
    /\ IsContact(r)
    /\ ~Absent(reqs[r].body["name"])
    /\ ~Absent(reqs[r].body["email"])
    /\ ~Absent(reqs[r].body["message"])

\* no field of the request is a value whose conversion to a string throws
PlainBody(r) == \A f \in DOMAIN reqs[r].body : reqs[r].body[f] # BadObj

\* the code's own not-configured guard is true
NotConfigured ==
    CASE variant = "multi"             -> PROVIDER = "smtp" /\ ~smtpTransporter
      [] variant \in {"smtp", "gmail"} -> ~smtpTransporter
      [] variant = "sg1"               -> ~SENDGRID_API_KEY
      [] OTHER                         -> FALSE

\* credentials for the provider in use are present (/health: emailConfigured)
emailConfigured ==
    \/ PROVIDER = "sendgrid" /\ SENDGRID_API_KEY
    \/ PROVIDER = "resend" /\ RESEND_API_KEY
    \/ PROVIDER = "smtp" /\ SMTP_USER /\ SMTP_PASS

NumSends(r) == Len(reqs[r].sends)

IsSuccess(resp) == resp.status = 200 /\ resp.success

IsMissingFields(resp) ==
    resp.status = 400 /\ ~resp.success /\ resp.message = "Missing required fields"

IsServerError(resp) ==
    resp.status = 500 /\ ~resp.success /\ resp.message = "Server error"

----------------------------------------------------------------------------
(* C1 *)

\* C1 (as claimed): every reservation request with all six required fields
\* present is answered with success and a reservationId after exactly two
\* send attempts, whether 0, 1 or 2 of the sends succeed.  Stated for plain
\* bodies on a server whose credentials are present.
C1_TwoSendsAlwaysSuccess ==
    \A r \in ReqIds :
        ReservationComplete(r) /\ PlainBody(r) /\ emailConfigured /\ Responded(r) =>
            /\ NumSends(r) = 2
            /\ IsSuccess(reqs[r].resp)
            /\ reqs[r].resp.reservationId # << >>

----------------------------------------------------------------------------
(* C2 *)

\* C2 (as claimed): the reservation handler responds only after both send
\* attempts have settled; no response is sent while a send is in flight.
\* Stated for a server whose credentials are present.
C2_ResponseAfterBothSettled ==
    \A r \in ReqIds :
        IsReservation(r) /\ emailConfigured /\ Responded(r) =>
            \A i \in 1..NumSends(r) : reqs[r].sends[i].status # "inflight"

----------------------------------------------------------------------------
(* C3 *)

\* C3: a reservation request missing one of name, email, phone, date, time,
\* guests is answered 400 / success:false / 'Missing required fields', and no
\* send attempt is ever issued for it.
C3_MissingReservationRejected ==
    \A r \in ReqIds :
        IsReservation(r) /\ ~ReservationComplete(r) =>
            /\ IsMissingFields(reqs[r].resp)
            /\ reqs[r].sends = << >>
            /\ ~reqs[r].simulated

C3_Witness ==
    \E r \in ReqIds :
        /\ IsReservation(r)
        /\ Absent(reqs[r].body["guests"])
        /\ ~Absent(reqs[r].body["name"])
        /\ Responded(r)
        /\ reqs[r].resp.status = 400

----------------------------------------------------------------------------
(* C4 *)

\* the SMTP-only variants without credentials: the handler only logs
SimulationMode == variant \in {"smtp", "gmail"} /\ ~smtpTransporter

\* C4 (as claimed): every contact request with name, email and message
\* present issues exactly one send attempt, addressed to MAIL_TO.
C4_OneSendToOperator ==
    \A r \in ReqIds :
        ContactComplete(r) /\ PlainBody(r) =>
            /\ NumSends(r) = 1
            /\ reqs[r].sends[1].to = MAIL_TO

\* C4 (amended): every contact request that passes validation and composes
\* issues exactly one send attempt, addressed to MAIL_TO, except in the
\* SMTP-only variants running without a transporter, which issue none.
C4_OneSendToOperatorUnlessSimulated ==
    \A r \in ReqIds :
        ContactComplete(r) /\ PlainBody(r) =>
            IF SimulationMode
            THEN reqs[r].sends = << >>
            ELSE /\ NumSends(r) = 1
                 /\ reqs[r].sends[1].to = MAIL_TO

C4_Witness ==
    \E r \in ReqIds :
        /\ ContactComplete(r)
        /\ PlainBody(r)
        /\ ~SimulationMode
        /\ Responded(r)
        /\ NumSends(r) = 1
        /\ reqs[r].sends[1].status = "ok"

----------------------------------------------------------------------------
(* C5 *)

\* C5 (as claimed): a contact request that passed validation is answered with
\* success once its send attempt has completed, also when the send failed.
\* Stated for plain bodies on a server whose credentials are present.
C5_ContactSuccessDespiteFailure ==
    \A r \in ReqIds :
        ContactComplete(r) /\ PlainBody(r) /\ emailConfigured /\ Responded(r) =>
            IsSuccess(reqs[r].resp)

----------------------------------------------------------------------------
(* C6 *)

\* C6: a contact request missing one of name, email, message is answered 400
\* 'Missing required fields' with no send attempt; a request with those three
\* present is never answered 400, whatever its subject.
C6_MissingContactRejected ==
    \A r \in ReqIds :
        /\ IsContact(r) /\ ~ContactComplete(r) =>
              /\ IsMissingFields(reqs[r].resp)
              /\ reqs[r].sends = << >>
              /\ ~reqs[r].simulated
        /\ ContactComplete(r) => reqs[r].resp.status # 400

C6_Witness ==
    \E r \in ReqIds :
        /\ IsContact(r)
        /\ Absent(reqs[r].body["message"])
        /\ ~Absent(reqs[r].body["name"])
        /\ ~Absent(reqs[r].body["email"])
        /\ Responded(r)
        /\ reqs[r].resp.status = 400

----------------------------------------------------------------------------
(* C7 *)

AllSends == { << r, i >> \in ReqIds \X (1..2) : i <= NumSends(r) }

SendAt(p) == reqs[p[1]].sends[p[2]]

\* the adapter the priority order names for the credentials present
AdapterByPriority ==
    IF SENDGRID_API_KEY THEN "sendWithSendGrid"
    ELSE IF RESEND_API_KEY THEN "sendWithResend"
    ELSE IF SMTP_USER /\ SMTP_PASS THEN "sendWithSMTP"
    ELSE "none"

\* C7: the selector of the multi-provider server follows the priority order
\* SendGrid key, else Resend key, else SMTP user and password, else no
\* adapter: every send runs through the adapter the order names and reaches
\* the network, and with no credentials no send reaches the network.
C7_ProviderPriority ==
    variant = "multi" =>
        /\ (AdapterByPriority = "none") <=> (PROVIDER = "smtp" /\ ~smtpTransporter)
        /\ \A p \in AllSends :
              IF AdapterByPriority = "none"
              THEN ~SendAt(p).net /\ SendAt(p).status = "failed"
              ELSE SendAt(p).net /\ SendAt(p).via = AdapterByPriority

C7_Witness ==
    /\ variant = "multi"
    /\ SENDGRID_API_KEY /\ RESEND_API_KEY /\ SMTP_USER /\ SMTP_PASS
    /\ \E p \in AllSends : SendAt(p).via = "sendWithSendGrid" /\ SendAt(p).status = "ok"

----------------------------------------------------------------------------
(* C8 *)

\* C8: the selection made at start-up never changes and every send of every
\* request is delegated to the same adapter.
C8_OneAdapterForever ==
    /\ [](\A p \in AllSends, q \in AllSends : SendAt(p).via = SendAt(q).via)
    /\ [][PROVIDER' = PROVIDER /\ smtpTransporter' = smtpTransporter]_vars

C8_Witness ==
    \E r1 \in ReqIds, r2 \in ReqIds :
        /\ IsReservation(r1) /\ NumSends(r1) = 2
        /\ IsContact(r2) /\ NumSends(r2) = 1
        /\ \A p \in AllSends : SendAt(p).net /\ SendAt(p).status # "inflight"

----------------------------------------------------------------------------
(* C9 *)

\* the requests that got past validation and message composition
Handled == { r \in ReqIds :
               Arrived(r) /\ (ReservationComplete(r) \/ ContactComplete(r)) /\ PlainBody(r) }

FailClosed(r) ==
    /\ NumSends(r) = IF IsReservation(r) THEN 2 ELSE 1
    /\ \A i \in 1..NumSends(r) :
          /\ reqs[r].sends[i].status = "failed"
          /\ reqs[r].sends[i].reason \in {"SMTP not configured", "SENDGRID_API_KEY missing"}
    /\ ~reqs[r].simulated
    /\ IsServerError(reqs[r].resp)

Simulated(r) ==
    /\ reqs[r].sends = << >>
    /\ reqs[r].simulated
    /\ IsSuccess(reqs[r].resp)

----------------------------------------------------------------------------
(* C10 *)

\* C10 (as claimed): when composing the messages throws, the request is
\* answered 500 / success:false / 'Server error', never with a success.
C10_UnexpectedThrowIsServerError ==
    \A r \in ReqIds :
        (ReservationComplete(r) \/ ContactComplete(r)) /\ ~PlainBody(r) =>
            IsServerError(reqs[r].resp)

----------------------------------------------------------------------------
(* C11 *)

\* the send calls made so far, and the outbound requests they have made
SendCalls == Cardinality(AllSends)

RECURSIVE SumAttempts(_)
SumAttempts(P) ==
    IF P = {} THEN 0
    ELSE LET p == CHOOSE x \in P : TRUE
         IN  SendAt(p).attempts + SumAttempts(P \ {p})

OutboundAttempts == SumAttempts(AllSends)

\* C11 (as claimed): each send call performs exactly one outbound attempt, so
\* the number of outbound attempts always equals the number of send calls.
C11_AttemptsEqualCalls ==
    /\ \A p \in AllSends : SendAt(p).attempts = 1
    /\ OutboundAttempts = SendCalls

\* C11 (amended): a send call makes exactly one outbound attempt, or none when
\* the adapter throws on its not-configured guard; after a failed attempt no
\* further attempt is made, so the number of outbound attempts equals the
\* number of send calls on a configured server and is zero otherwise.
C11_OneAttemptUnlessNotConfigured ==
    /\ \A p \in AllSends :
          /\ SendAt(p).attempts = IF NotConfigured THEN 0 ELSE 1
          /\ SendAt(p).attempts = 0 =>
                SendAt(p).reason \in {"SMTP not configured", "SENDGRID_API_KEY missing"}
    /\ OutboundAttempts = IF NotConfigured THEN 0 ELSE SendCalls

C11_Witness ==
    \E r \in ReqIds :
        /\ IsReservation(r) /\ NumSends(r) = 2
        /\ Responded(r)
        /\ reqs[r].sends[1].status = "failed" /\ reqs[r].sends[1].net
        /\ reqs[r].sends[2].status = "failed" /\ reqs[r].sends[2].net
        /\ OutboundAttempts = 2

----------------------------------------------------------------------------
(* C12 *)

\* C12 (as claimed): the SMTP security mode is a function of the port alone:
\* port 465 gives implicit TLS (secure), every other port gives a plain
\* connection with a mandatory STARTTLS upgrade (not secure, requireTLS);
\* exactly one of the two modes is in force, so TLS always precedes
\* authentication.
C12_SecurityFromPortAlone ==
    \A i \in 1..Len(smtpOptions) :
        /\ smtpOptions[i].port = 465 => smtpOptions[i].secure
        /\ smtpOptions[i].port # 465 =>
              ~smtpOptions[i].secure /\ smtpOptions[i].requireTLS
        /\ smtpOptions[i].secure # smtpOptions[i].requireTLS

----------------------------------------------------------------------------
(* C13 *)

\* end state: client error for missing fields, nothing sent
EndMissingFields(r) ==
    /\ ~ReservationComplete(r)
    /\ IsMissingFields(reqs[r].resp)
    /\ reqs[r].sends = << >>
    /\ ~reqs[r].simulated

HasReference(r) ==
    /\ Len(reqs[r].resp.reservationId) = 2
    /\ reqs[r].resp.reservationId[1] = "AKIR-"

\* end state: success with a reference after both sends were issued
EndSuccessAfterSends(r) ==
    /\ ReservationComplete(r)
    /\ IsSuccess(reqs[r].resp)
    /\ HasReference(r)
    /\ NumSends(r) = 2

\* end state: success with a reference after the simulated send was logged
EndSuccessSimulated(r) ==
    /\ ReservationComplete(r)
    /\ SimulationMode
    /\ IsSuccess(reqs[r].resp)
    /\ HasReference(r)
    /\ reqs[r].sends = << >>
    /\ reqs[r].simulated

\* end state: the answer of the handler's catch block, without a reference
EndCaught(r) ==
    /\ ReservationComplete(r)
    /\ reqs[r].resp = IF variant = "gmail" THEN SavedInDev ELSE ServerError
    /\ \/ reqs[r].sends = << >> /\ ~PlainBody(r) /\ ~reqs[r].simulated
       \/ /\ NumSends(r) = 2
          /\ variant \in {"multi", "sg1", "sg2"}
          /\ \E i \in 1..2 : reqs[r].sends[i].status = "failed"

----------------------------------------------------------------------------
(* C14 *)

\* C14 (as claimed): every send that fails during a reservation request is
\* logged: the one failure if one send fails, each of the two if both fail.
\* Stated for a server whose credentials are present.
C14_EveryFailureLogged ==
    \A r \in ReqIds :
        IsReservation(r) /\ emailConfigured =>
            \A i \in 1..NumSends(r) :
                reqs[r].sends[i].status = "failed" => i \in reqs[r].logged

----------------------------------------------------------------------------
(* C15 *)

\* C15: the messages of a reservation request are two, the first addressed to
\* MAIL_TO and the second to the email address of the request body; a
\* reservation message never has another recipient, and a valid request on a
\* server with a transport gets both.
C15_OperatorAndSubmitter ==
    \A r \in ReqIds :
        IsReservation(r) =>
            /\ \/ reqs[r].sends = << >>
               \/ /\ NumSends(r) = 2
                  /\ reqs[r].sends[1].to = MAIL_TO
                  /\ reqs[r].sends[2].to = reqs[r].body["email"]
            /\ ReservationComplete(r) /\ PlainBody(r) /\ ~SimulationMode =>
                  NumSends(r) = 2

C15_Witness ==
    \E r \in ReqIds :
        /\ ReservationComplete(r) /\ Responded(r)
        /\ NumSends(r) = 2
        /\ reqs[r].sends[1].to = MAIL_TO /\ reqs[r].sends[1].status = "ok"
        /\ reqs[r].sends[2].to = Text /\ reqs[r].sends[2].status = "ok"

----------------------------------------------------------------------------
(* C16 *)

\* C16: the two sends of a reservation are started together: there is no
\* state in which the first send has been started and the second has not,
\* whatever the first send's state (in flight, succeeded, failed, thrown
\* before its request); and while the handler awaits, no send has failed.
C16_FanOut ==
    \A r \in ReqIds :
        IsReservation(r) =>
            /\ NumSends(r) \in {0, 2}
            /\ reqs[r].pc = "awaiting" =>
                  /\ NumSends(r) = 2
                  /\ \A i \in 1..2 : reqs[r].sends[i].status # "failed"
                  /\ \E i \in 1..2 : reqs[r].sends[i].status = "inflight"

\* both sends in flight at once
C16_Witness ==
    \E r \in ReqIds :
        /\ IsReservation(r)
        /\ reqs[r].pc = "awaiting"
        /\ NumSends(r) = 2
        /\ reqs[r].sends[1].status = "inflight"
        /\ reqs[r].sends[2].status = "inflight"

----------------------------------------------------------------------------
(* C17 *)

HttpsSends == { p \in AllSends : SendAt(p).via \in HttpsAdapters }

\* C17 (as claimed): a send through an HTTPS adapter fails if and only if the
\* provider's status is not 2xx or the request itself fails, and on every
\* non-2xx answer the failure reason quotes the status code, and the body
\* whenever the body could be read.
C17_FailsIffNot2xxWithStatusAndBody ==
    \A p \in HttpsSends :
        SendAt(p).status # "inflight" =>
            /\ (SendAt(p).status = "failed") <=> (SendAt(p).http # "2xx")
            /\ SendAt(p).http \in {"non2xx", "non2xx, body unreadable"} =>
                  "status" \in SendAt(p).detail
            /\ SendAt(p).http = "non2xx" => "body" \in SendAt(p).detail

----------------------------------------------------------------------------
(* C18 *)

\* C18: the start-up verification does not gate sends: on a server with a
\* transporter, whether the verification is pending, has succeeded or has
\* failed, every handled request has all its sends issued to the network,
\* none refused as not configured; and the verification changes no request.
SendsIssuedWhateverVerify ==
    smtpTransporter /\ smtpVerify \in {"pending", "ok", "failed"} =>
        \A r \in Handled :
            /\ NumSends(r) = IF IsReservation(r) THEN 2 ELSE 1
            /\ \A i \in 1..NumSends(r) :
                  /\ reqs[r].sends[i].net
                  /\ reqs[r].sends[i].attempts = 1
                  /\ reqs[r].sends[i].reason \notin
                        {"SMTP not configured", "SENDGRID_API_KEY missing"}

C18_VerifyDoesNotGate ==
    /\ []SendsIssuedWhateverVerify
    /\ [][smtpVerify' # smtpVerify => reqs' = reqs /\ smtpTransporter' = smtpTransporter]_vars

\* a request served in full while the verification is still pending
C18_Witness ==
    /\ smtpTransporter
    /\ smtpVerify = "pending"
    /\ \E r \in Handled :
          /\ IsReservation(r) /\ Responded(r)
          /\ IsSuccess(reqs[r].resp)
          /\ \A i \in 1..2 : reqs[r].sends[i].status = "ok"

----------------------------------------------------------------------------
(* C19 *)

\* a value was given for the field: it is present and not null (the empty
\* string is a value)
Given(v) == v # Undefined /\ v # Null

\* C19: for every pair of specialRequests and message, each absent, null,
\* empty or a text, notes is specialRequests when a specialRequests value is
\* given, otherwise message when a message value is given, otherwise ''.
C19_NotesFallback ==
    \A r \in ReqIds :
        ReservationComplete(r) =>
            reqs[r].notes =
                IF Given(reqs[r].body["specialRequests"])
                THEN reqs[r].body["specialRequests"]
                ELSE IF Given(reqs[r].body["message"])
                THEN reqs[r].body["message"]
                ELSE Empty

\* the fallback taken: no specialRequests value, notes is the message
C19_Witness ==
    \E r \in ReqIds :
        /\ ReservationComplete(r)
        /\ reqs[r].body["specialRequests"] = Null
        /\ reqs[r].body["message"] = Text
        /\ reqs[r].notes = Text

----------------------------------------------------------------------------
(* C20 *)

\* the requests answered with a reference
Referenced == { r \in ReqIds : reqs[r].resp.reservationId # << >> }

\* C20: a reference is 'AKIR-' followed by the clock value read when the
\* success response is built: it is no smaller than the numeric part of any
\* reference given before, and equals every reference given within the
\* same clock tick.
C20_ReferenceFromClock ==
    [][\A r \in ReqIds :
          reqs[r].resp.reservationId = << >> /\ reqs'[r].resp.reservationId # << >> =>
              /\ reqs'[r].resp.reservationId = << "AKIR-", now >>
              /\ \A e \in Referenced :
                    /\ reqs[e].resp.reservationId[2] <= reqs'[r].resp.reservationId[2]
                    /\ reqs[e].resp.reservationId[2] = now =>
                          reqs'[r].resp.reservationId = reqs[e].resp.reservationId]_vars

\* two requests answered within one clock tick, after the clock has advanced
C20_Witness ==
    \E r1 \in Referenced, r2 \in Referenced :
        /\ r1 # r2
        /\ reqs[r1].resp.reservationId = reqs[r2].resp.reservationId
        /\ reqs[r1].resp.reservationId[2] > 0

----------------------------------------------------------------------------
(* C21 *)

\* the recipients a request's sends must have, from its own input and the
\* configuration alone
OwnRecipients(r) ==
    IF r \notin Handled \/ SimulationMode THEN << >>
    ELSE IF IsReservation(r) THEN << MAIL_TO, reqs[r].body["email"] >>
    ELSE << MAIL_TO >>

\* the answer a request must have got, from its own input, the configuration
\* and the outcomes of its own sends alone: << status, success, message >>,
\* or << >> while it must still be waiting
OwnAnswer(r) ==
    LET own == reqs[r].sends
        caught == IF variant = "gmail"
                  THEN << 200, TRUE, "Saved (email failed in dev)" >>
                  ELSE << 500, FALSE, "Server error" >>
        done == IF IsReservation(r)
                THEN << 200, TRUE, "Reservation request received" >>
                ELSE << 200, TRUE, "Contact form submitted successfully" >>
    IN  IF ~(ReservationComplete(r) \/ ContactComplete(r))
        THEN << 400, FALSE, "Missing required fields" >>
        ELSE IF ~PlainBody(r) THEN caught
        ELSE IF SimulationMode THEN done
        ELSE IF \E i \in 1..Len(own) : own[i].status = "failed"
        THEN IF variant \in {"smtp", "gmail"} THEN done ELSE caught
        ELSE IF \A i \in 1..Len(own) : own[i].status = "ok" THEN done
        ELSE << >>

Answer(r) ==
    IF Responded(r)
    THEN << reqs[r].resp.status, reqs[r].resp.success, reqs[r].resp.message >>
    ELSE << >>

\* C21: concurrent requests do not interfere: in every interleaving, the
\* status and kind of each request's response and the number and recipients
\* of its sends are what its own input, the configuration and the outcomes
\* of its own sends determine, whatever the other requests are doing.
C21_NoInterference ==
    \A r \in ReqIds :
        Arrived(r) =>
            /\ [i \in 1..NumSends(r) |-> reqs[r].sends[i].to] = OwnRecipients(r)
            /\ Answer(r) = OwnAnswer(r)

\* a request answered with an error while an earlier request, of another
\* submitter, is still waiting for its sends
C21_Witness ==
    \E r1 \in ReqIds, r2 \in ReqIds :
        /\ r1 < r2
        /\ IsReservation(r1) /\ reqs[r1].pc = "awaiting"
        /\ IsReservation(r2) /\ Responded(r2) /\ NumSends(r2) = 2
        /\ reqs[r2].sends[1].status = "failed"
        /\ reqs[r1].body["email"] # reqs[r2].body["email"]

----------------------------------------------------------------------------
(* C22 *)

\* C22: provided every issued send settles, every reservation or contact
\* request that was received is answered in the end, and exactly once: no
\* request has more than one response, a request is past its handler's last
\* step exactly when it has one, and a response once given is not replaced.
C22_RespondsExactlyOnce ==
    /\ \A r \in 1..MaxReq : Arrived(r) ~> Responded(r)
    /\ [](\A r \in ReqIds :
            /\ reqs[r].responses <= 1
            /\ Responded(r) <=> reqs[r].responses = 1
            /\ Responded(r) <=> reqs[r].resp # NoResp)
    /\ [][\A r \in ReqIds : Responded(r) => reqs'[r].resp = reqs[r].resp]_vars

\* a reservation answered once, after a send of its own failed and the other
\* settled later
C22_Witness ==
    \E r \in ReqIds :
        /\ IsReservation(r) /\ Responded(r)
        /\ reqs[r].responses = 1
        /\ NumSends(r) = 2
        /\ reqs[r].sends[1].status = "failed" /\ reqs[r].sends[1].net
        /\ reqs[r].sends[2].status # "inflight"

====
